---- MODULE Spec2Model ----
(***************************************************************************)
(* Billettlyst: the Category page, the EventDetails page and the card      *)
(* renderers (EventCard, renderAttraction, renderVenue).                   *)
(*                                                                         *)
(* Spec        the two page components as state machines: local state,     *)
(*             the effect that loads on mount / parameter change, the      *)
(*             search form, the filter panel, and the in-flight fetches    *)
(*             that settle in any order.                                   *)
(* RenderSpec  the render functions applied to fixture entities with       *)
(*             optional fields present or absent.                          *)
(***************************************************************************)
EXTENDS Integers, Sequences, FiniteSets, TLC

VARIABLES
    page,           \* which route component this run is about
    phase,          \* "constructed" (useState done), "mounted", "unmounted"
    hasDataDefault, \* whether the <title> element carries data-default
    title,          \* document.title
    type,           \* Category: useParams().type
    attractions,    \* Category: useState<Attraction[]>
    events,         \* Category: useState<Event[]>
    venues,         \* Category: useState<Venue[]>
    searchQuery,    \* Category: useState('')
    filters,        \* Category: useState({date, country, city})
    isFiltersOpen,  \* Category: useState(false)
    isLoading,      \* Category / EventDetails: useState(true)
    id,             \* EventDetails: useParams().id
    event,          \* EventDetails: useState<Event | null>(null)
    pending,        \* promises of the API client that have not settled
    nextRid,        \* number of the next fetch to be issued
    shownFor,       \* the request whose response the collections hold
    lastOp,         \* the last step: a handler, or a fetch that resolved / rejected
    props,          \* RenderSpec: the entities handed to the renderers
    rendered,       \* RenderSpec: the component rendered last
    locals,         \* RenderSpec: the consts that render computed
    output          \* RenderSpec: the element that render returned

pageVars   == <<page, phase, hasDataDefault, title, type, attractions, events,
                venues, searchQuery, filters, isFiltersOpen, isLoading, id,
                event, pending, nextRid, shownFor, lastOp>>
renderVars == <<props, rendered, locals, output>>
vars       == <<pageVars, renderVars>>

(***************************************************************************)
(* Optional values: undefined/null is the empty sequence.                  *)
(***************************************************************************)
None == <<>>
Some(x) == <<x>>
IsSome(o) == o # None
Get(o) == o[1]

\* JavaScript truthiness of a string ('' is falsy).
Truthy(s) == s # ""

(***************************************************************************)
(* Bounds.                                                                 *)
(***************************************************************************)
\* Total number of fetches issued in one run.
MaxFetches == 2

\* Longest image list of a fixture entity.
MaxImages == 2

\* Longest classification list of a fixture event.
MaxClassifications == 2

\* Longest collection of the Category result view.
MaxCards == 2

(***************************************************************************)
(* Entities of the events API (types Event, Attraction, Venue), built from *)
(* fixtures in which every optional field is present or absent.            *)
(***************************************************************************)
ImgA == [url |-> "a.jpg", ratio |-> "4_3",  width |-> 1024]
ImgB == [url |-> "b.jpg", ratio |-> "16_9", width |-> 640]
ImgC == [url |-> "c.jpg", ratio |-> "16_9", width |-> 1136]
Images == {ImgA, ImgB, ImgC}

SeqsUpTo(S, n) == UNION {[1..k -> S] : k \in 0..n}

\* images?: absent, empty, or a list of images
ImageLists == {None} \cup {Some(l) : l \in SeqsUpTo(Images, MaxImages)}

\* venue.city / venue.country: absent, or an object with a name ("" = no name)
Cities    == {None, Some([name |-> ""]), Some([name |-> "Oslo"])}
Countries == {None, Some([name |-> "Norge"])}

VenueFixtures ==
    {[id |-> "v1", name |-> "Spektrum", city |-> c, country |-> k, images |-> i] :
        c \in Cities, k \in Countries, i \in ImageLists}

\* event._embedded?: absent, without venues, with an empty list, with one venue
EmbeddedFixtures ==
    {None, Some([venues |-> None]), Some([venues |-> Some(<<>>)])}
    \cup {Some([venues |-> Some(<<v>>)]) : v \in {w \in VenueFixtures : w.images = None}}

\* event.dates?: absent, without start, with start.localDate? / start.localTime?
DatesFixtures ==
    {None, Some([start |-> None])}
    \cup {Some([start |-> Some([localDate |-> d, localTime |-> t])]) :
            d \in {None, Some("2025-06-01")}, t \in {None, Some("19:30:00")}}

EventFixtures ==
    {[id |-> "A", name |-> "Konsert", images |-> i, embedded |-> e, dates |-> d,
      classifications |-> None] :
        i \in ImageLists, e \in EmbeddedFixtures, d \in DatesFixtures}

\* event.classifications?: lists of classifications whose segment, genre and
\* subGenre carry a name or none ("")
ClassNames == {"", "Musikk", "Rock"}
Classifications == [segment : ClassNames, genre : ClassNames, subGenre : ClassNames]
ClassifiedEvents ==
    {[id |-> "A", name |-> "Konsert", images |-> Some(<<ImgC>>), embedded |-> None,
      dates |-> None, classifications |-> Some(c)] :
        c \in SeqsUpTo(Classifications, MaxClassifications)}

\* classifications?: the names of segment, genre and subGenre ("" = no name)
ClassificationFixtures ==
    {None, Some(<<>>),
     Some(<<[segment |-> "Musikk", genre |-> "", subGenre |-> ""]>>),
     Some(<<[segment |-> "Musikk", genre |-> "Rock", subGenre |-> ""]>>)}

AttractionFixtures ==
    {[id |-> "a1", name |-> "Band", images |-> i, classifications |-> c] :
        i \in ImageLists, c \in ClassificationFixtures}

(***************************************************************************)
(* Literals of the render paths.                                           *)
(***************************************************************************)
PlaceholderUrl == "https://via.placeholder.com/400x225?text=Ingen+Bilde"
UkjentSted     == "Ukjent sted"
UkjentSjanger  == "Ukjent sjanger"
DatoIkkeTilgjengelig == "Dato ikke tilgjengelig"
CardMinWidth == 500
HeroMinWidth == 800

\* utils/formatDate is not part of the sources: its results are kept as terms.
formatDate(d) == "formatDate(" \o d \o ")"
formatDateTime(d, t) == "formatDateTime(" \o d \o "," \o t \o ")"

\* The elements of images ({} when images is absent).
ImagesOf(images) ==
    IF IsSome(images) THEN {Get(images)[i] : i \in 1..Len(Get(images))} ELSE {}

\* Array.prototype.find: the first element of l among those that satisfy
\* the predicate (matching), or undefined.
Find(l, matching) ==
    IF \E i \in 1..Len(l) : l[i] \in matching
    THEN Some(l[CHOOSE i \in 1..Len(l) :
                    l[i] \in matching /\ \A j \in 1..(i-1) : l[j] \notin matching])
    ELSE None

\* images?.find(...): undefined when images is absent.
FindImage(images, matching) ==
    IF IsSome(images) THEN Find(Get(images), matching) ELSE None

\* images?.[0]
FirstImage(images) ==
    IF IsSome(images) /\ Len(Get(images)) > 0 THEN Some(Get(images)[1]) ELSE None

\* a || b || c over optional objects
OrElse(a, b) == IF IsSome(a) THEN a ELSE b

\* event._embedded?.venues?.[0]
FirstVenue(ev) ==
    IF IsSome(ev.embedded) /\ IsSome(Get(ev.embedded).venues)
       /\ Len(Get(Get(ev.embedded).venues)) > 0
    THEN Some(Get(Get(ev.embedded).venues)[1])
    ELSE None

\* event.dates?.start?.localDate and .localTime
StartField(ev, f) ==
    IF IsSome(ev.dates) /\ IsSome(Get(ev.dates).start)
    THEN Get(Get(ev.dates).start)[f]
    ELSE None

(***************************************************************************)
(* EventCard: the consts computed before the JSX, and the card.            *)
(***************************************************************************)
EventCardImage(ev) ==
    Get(OrElse(FindImage(ev.images,
                         {img \in ImagesOf(ev.images) :
                              img.ratio = "16_9" /\ img.width > CardMinWidth}),
        OrElse(FirstImage(ev.images),
               Some([url |-> PlaceholderUrl]))))

EventCardLocation(ev) ==
    LET venue == FirstVenue(ev)
        cityName == IF IsSome(venue) /\ IsSome(Get(venue).city)
                    THEN Get(Get(venue).city).name ELSE ""
        countryName == IF IsSome(venue) /\ IsSome(Get(venue).country)
                       THEN Get(Get(venue).country).name ELSE ""
    IN  IF Truthy(cityName) /\ Truthy(countryName)
        THEN cityName \o ", " \o countryName
        ELSE UkjentSted

EventCardDate(ev) ==
    LET localDate == StartField(ev, "localDate")
    IN  IF IsSome(localDate) /\ Truthy(Get(localDate))
        THEN formatDate(Get(localDate))
        ELSE DatoIkkeTilgjengelig

EventCard(ev) ==
    [src  |-> EventCardImage(ev).url,
     name |-> ev.name,
     formattedDate |-> EventCardDate(ev),
     location |-> EventCardLocation(ev)]

(***************************************************************************)
(* Category: renderAttraction and renderVenue.                             *)
(***************************************************************************)
CategoryImage(images) ==
    Get(OrElse(FindImage(images, {img \in ImagesOf(images) : img.ratio = "16_9"}),
        OrElse(FirstImage(images),
               Some([url |-> PlaceholderUrl]))))

AttractionGenre(a) ==
    LET first == IF IsSome(a.classifications) /\ Len(Get(a.classifications)) > 0
                 THEN Get(a.classifications)[1].genre ELSE ""
    IN  IF Truthy(first) THEN first ELSE UkjentSjanger

renderAttraction(a) ==
    Some([src |-> CategoryImage(a.images).url, name |-> a.name,
          text |-> AttractionGenre(a)])

\* venue is an element of the venues collection, or null
renderVenue(venue) ==
    IF ~IsSome(venue) \/ ~IsSome(Get(venue).city) \/ ~IsSome(Get(venue).country)
    THEN None
    ELSE Some([src |-> CategoryImage(Get(venue).images).url,
               name |-> Get(venue).name,
               text |-> Get(Get(venue).city).name \o ", "
                        \o Get(Get(venue).country).name])

(***************************************************************************)
(* Category: the result view below the header, for the state it renders.  *)
(***************************************************************************)
IngenArrangementer == "Ingen arrangementer funnet i denne kategorien."
IngenAttraksjoner  == "Ingen attraksjoner funnet i denne kategorien."
IngenSpillesteder  == "Ingen spillesteder funnet i denne kategorien."

\* events.length > 0 ? events.map(event => <EventCard .../>) : <p>...</p>
Arrangementer(evs) ==
    IF Len(evs) > 0
    THEN [cards |-> [i \in 1..Len(evs) |-> EventCard(evs[i])], message |-> None]
    ELSE [cards |-> <<>>, message |-> Some(IngenArrangementer)]

\* attractions.length > 0 ? attractions.map(renderAttraction) : <p>...</p>
Attraksjoner(atts) ==
    IF Len(atts) > 0
    THEN [cards |-> [i \in 1..Len(atts) |-> Get(renderAttraction(atts[i]))],
          message |-> None]
    ELSE [cards |-> <<>>, message |-> Some(IngenAttraksjoner)]

\* venues.length > 0 ? venues.map(renderVenue).filter(Boolean) : <p>...</p>
Spillesteder(vens) ==
    IF Len(vens) > 0
    THEN LET mapped == [i \in 1..Len(vens) |-> renderVenue(vens[i])]
             kept   == SelectSeq(mapped, IsSome)
         IN  [cards |-> [i \in 1..Len(kept) |-> Get(kept[i])], message |-> None]
    ELSE [cards |-> <<>>, message |-> Some(IngenSpillesteder)]

CategoryResults(loading, evs, atts, vens) ==
    IF loading
    THEN [view |-> "skeleton"]
    ELSE [view |-> "results",
          arrangementer |-> Arrangementer(evs),
          attraksjoner  |-> Attraksjoner(atts),
          spillesteder  |-> Spillesteder(vens)]

(***************************************************************************)
(* EventDetails: the branch taken, the consts computed before the JSX, and *)
(* the JSX.  venue.city.name and venue.country.name are read without a     *)
(* guard: reading .name of an absent city or country is a TypeError.       *)
(***************************************************************************)
EventDetailsBranch(loading, ev) ==
    IF loading THEN "skeleton"
    ELSE IF ~IsSome(ev) THEN "notFound"
    ELSE "details"

heroImage(ev) ==
    OrElse(FindImage(ev.images,
                     {img \in ImagesOf(ev.images) :
                          img.ratio = "16_9" /\ img.width > HeroMinWidth}),
    OrElse(FindImage(ev.images, {img \in ImagesOf(ev.images) : img.width > HeroMinWidth}),
           FirstImage(ev.images)))

formattedDate(ev) ==
    LET startDate == StartField(ev, "localDate")
    IN  IF IsSome(startDate) /\ Truthy(Get(startDate))
        THEN formatDate(Get(startDate))
        ELSE DatoIkkeTilgjengelig

\* Variant of formattedDateTime: formatDateTime is used whenever a time is
\* present.
formattedDateTime_TimeOnly(ev) ==
    LET startDate == StartField(ev, "localDate")
        startTime == StartField(ev, "localTime")
    IN  IF IsSome(startTime) /\ Truthy(Get(startTime))
        THEN formatDateTime(IF IsSome(startDate) THEN Get(startDate) ELSE "undefined",
                            Get(startTime))
        ELSE formattedDate(ev)

formattedDateTime(ev) ==
    LET startDate == StartField(ev, "localDate")
        startTime == StartField(ev, "localTime")
    IN  IF /\ IsSome(startDate) /\ Truthy(Get(startDate))
           /\ IsSome(startTime) /\ Truthy(Get(startTime))
        THEN formatDateTime(Get(startDate), Get(startTime))
        ELSE formattedDate(ev)

\* classifications.map(c => [c.segment?.name, c.genre?.name, c.subGenre?.name])
\*                .flat()
RECURSIVE FlatNames(_)
FlatNames(cs) ==
    IF cs = <<>> THEN <<>>
    ELSE <<Head(cs).segment, Head(cs).genre, Head(cs).subGenre>> \o FlatNames(Tail(cs))

\* Array.prototype.indexOf: the first index of v in l (0 when absent; indices
\* count from 1 here).
IndexOf(l, v) ==
    IF \E i \in 1..Len(l) : l[i] = v
    THEN CHOOSE i \in 1..Len(l) : l[i] = v /\ \A j \in 1..(i-1) : l[j] # v
    ELSE 0

\* .filter((value, index, self) => self.indexOf(value) === index), from index i
RECURSIVE FilterFirstOccurrence(_, _)
FilterFirstOccurrence(l, i) ==
    IF i > Len(l) THEN <<>>
    ELSE (IF IndexOf(l, l[i]) = i THEN <<l[i]>> ELSE <<>>)
         \o FilterFirstOccurrence(l, i + 1)

\* Variant of genres: without the indexOf filter.
genres_NoDedup(ev) ==
    SelectSeq(FlatNames(IF IsSome(ev.classifications)
                        THEN Get(ev.classifications) ELSE <<>>), Truthy)

genres(ev) ==
    LET classifications == IF IsSome(ev.classifications)
                           THEN Get(ev.classifications) ELSE <<>>
    IN  FilterFirstOccurrence(SelectSeq(FlatNames(classifications), Truthy), 1)

EventDetailsLocals(ev) ==
    [heroImage |-> heroImage(ev),
     venue |-> FirstVenue(ev),
     genres |-> genres(ev),
     formattedDate |-> formattedDate(ev),
     formattedDateTime |-> formattedDateTime(ev)]

\* venue.city.name, venue.country.name
DerefThrows(venue) == ~IsSome(venue.city) \/ ~IsSome(venue.country)

EventDetailsJsx(ev) ==
    LET l == EventDetailsLocals(ev)
    IN  IF IsSome(l.venue) /\ DerefThrows(Get(l.venue))
        THEN [view |-> "TypeError"]
        ELSE [view |-> "details",
              header |->
                 IF IsSome(l.heroImage)
                 THEN Some([src |-> Get(l.heroImage).url,
                            name |-> ev.name,
                            place |-> IF IsSome(l.venue)
                                      THEN Some(Get(l.venue).name \o ", "
                                                \o Get(Get(l.venue).city).name \o ", "
                                                \o Get(Get(l.venue).country).name)
                                      ELSE None,
                            date |-> l.formattedDate])
                 ELSE None,
              sjangere |-> IF Len(l.genres) > 0 THEN Some(l.genres) ELSE None,
              datoOgTid |-> l.formattedDateTime,
              sted |-> IF IsSome(l.venue)
                       THEN Some(Get(Get(l.venue).city).name \o ", "
                                 \o Get(Get(l.venue).country).name)
                       ELSE None]

EventDetails(loading, ev) ==
    IF EventDetailsBranch(loading, ev) = "details"
    THEN EventDetailsJsx(Get(ev))
    ELSE [view |-> EventDetailsBranch(loading, ev)]

(***************************************************************************)
(* Route parameters, form inputs and API payloads of the page components.  *)
(***************************************************************************)
\* useParams() yields undefined when the route has no such parameter.
NoType == ""
NoId   == ""
RouteTypes == {"music", "opera", NoType}
RouteIds   == {"A", "B", NoId}

EmptyFilters == [date |-> "", country |-> "", city |-> ""]
FilterNames  == {"date", "country", "city"}
FilterInputs == [date |-> {"", "2025-06-01"}, country |-> {"", "NO"},
                 city |-> {"", "Oslo"}]

\* Texts of the search field, as sequences of characters.
SearchInputs == {<<>>, <<" ">>, <<" ", "a">>}
Whitespace   == {" "}

\* String.prototype.trim
RECURSIVE TrimStart(_)
TrimStart(q) ==
    IF q # <<>> /\ Head(q) \in Whitespace THEN TrimStart(Tail(q)) ELSE q
RECURSIVE TrimEnd(_)
TrimEnd(q) ==
    IF q # <<>> /\ q[Len(q)] \in Whitespace
    THEN TrimEnd(SubSeq(q, 1, Len(q) - 1)) ELSE q
trim(q) == TrimEnd(TrimStart(q))

categoryTranslations ==
    [k \in {"music", "sports", "arts", "family"} |->
        CASE k = "music"  -> "Musikk"
          [] k = "sports" -> "Sport"
          [] k = "arts"   -> "Teater/Show"
          [] k = "family" -> "Familie"]

\* categoryTranslations[type || 'music'] || 'Kategori'
categoryName(t) ==
    LET key == IF t = NoType THEN "music" ELSE t
    IN  IF key \in DOMAIN categoryTranslations
        THEN categoryTranslations[key]
        ELSE "Kategori"

DefaultTitle == "Billettlyst | Din billett til opplevelser"
CategoryTitle(name) == name \o " | Billettlyst"
EventTitle(eventData) ==
    IF IsSome(eventData) THEN Get(eventData).name \o " | Billettlyst"
    ELSE "Arrangement | Billettlyst"

\* Entities that the payloads of the page model are made of.
VenueFull   == [id |-> "v1", name |-> "Spektrum", city |-> Some([name |-> "Oslo"]),
                country |-> Some([name |-> "Norge"]), images |-> Some(<<ImgB>>)]
VenueNoCity == [id |-> "v2", name |-> "Ukjent scene", city |-> None,
                country |-> Some([name |-> "Norge"]), images |-> None]
EventFull(i) ==
    [id |-> i, name |-> "Konsert " \o i, images |-> Some(<<ImgA, ImgC>>),
     embedded |-> Some([venues |-> Some(<<[VenueFull EXCEPT !.images = None]>>)]),
     dates |-> Some([start |-> Some([localDate |-> Some("2025-06-01"),
                                     localTime |-> Some("19:30:00")])]),
     classifications |-> Some(<<[segment |-> "Musikk", genre |-> "Rock",
                                 subGenre |-> ""]>>)]
EventSparse(i) ==
    [id |-> i, name |-> "Festival " \o i, images |-> None,
     embedded |-> Some([venues |-> Some(<<VenueNoCity>>)]),
     dates |-> None, classifications |-> None]
AttractionFull ==
    [id |-> "a1", name |-> "Band", images |-> Some(<<ImgB>>),
     classifications |-> Some(<<[segment |-> "Musikk", genre |-> "Rock",
                                 subGenre |-> ""]>>)]

\* Payloads of fetchCategoryContent and fetchSuggest.
EmptyContent == [attractions |-> <<>>, events |-> <<>>, venues |-> <<>>]
ContentOne   == [attractions |-> <<AttractionFull>>,
                 events |-> <<EventFull("A"), EventSparse("B")>>,
                 venues |-> <<Some(VenueFull), Some(VenueNoCity)>>]
Contents == {EmptyContent, ContentOne}

\* States of Category for its result view: isLoading and the collections.
ResultStates ==
    [isLoading : BOOLEAN,
     events : SeqsUpTo({EventFull("A"), EventSparse("B")}, MaxCards),
     attractions : SeqsUpTo({AttractionFull}, MaxCards),
     venues : SeqsUpTo({Some(VenueFull), Some(VenueNoCity)}, MaxCards)]

\* Payloads of fetchEventById(i): no event, or an event with that id.
EventResponses(i) == {None, Some(EventFull(i)), Some(EventSparse(i))}

(***************************************************************************)
(* Calls of the API client that are in flight.  categoryName is the const  *)
(* of the render whose effect issued the call (the closure reads it).      *)
(***************************************************************************)
NoRequest ==
    [rid |-> 0, kind |-> "none", type |-> NoType, filters |-> EmptyFilters,
     query |-> <<>>, id |-> NoId, categoryName |-> ""]
CategoryRequest(n, t, f) ==
    [NoRequest EXCEPT !.rid = n, !.kind = "fetchCategoryContent", !.type = t,
                      !.filters = f, !.categoryName = categoryName(t)]
SuggestRequest(n, q) ==
    [NoRequest EXCEPT !.rid = n, !.kind = "fetchSuggest", !.query = q]
EventRequest(n, i) ==
    [NoRequest EXCEPT !.rid = n, !.kind = "fetchEventById", !.id = i]


\* The state of the renderers while the pages run.
NoRender ==
    /\ props = [kind |-> "none"]
    /\ rendered = "none"
    /\ locals = None
    /\ output = None

(***************************************************************************)
(* Category.                                                               *)
(***************************************************************************)
\* The cleanup that the effect returns: runs before the effect runs again
\* and on unmount.
CleanupTitle == IF hasDataDefault THEN DefaultTitle ELSE title

\* loadCategoryContent up to its await, for the type and filters of the
\* render that ran the effect.
\* Variant of loadCategoryContent: without the early return on a missing
\* type.
loadCategoryContent_NoGuard(t, f) ==
    /\ nextRid <= MaxFetches
    /\ isLoading' = TRUE
    /\ pending' = pending \cup {CategoryRequest(nextRid, t, f)}
    /\ nextRid' = nextRid + 1

loadCategoryContent(t, f) ==
    IF t = NoType
    THEN UNCHANGED <<isLoading, pending, nextRid>>
    ELSE /\ nextRid <= MaxFetches
         /\ isLoading' = TRUE
         /\ pending' = pending \cup {CategoryRequest(nextRid, t, f)}
         /\ nextRid' = nextRid + 1

MountCategory ==
    /\ page = "category" /\ phase = "constructed"
    /\ phase' = "mounted"
    /\ loadCategoryContent(type, filters)
    /\ lastOp' = "handler"
    /\ UNCHANGED <<page, hasDataDefault, title, type, attractions, events, venues,
                   searchQuery, filters, isFiltersOpen, id, event, shownFor>>
    /\ UNCHANGED renderVars

\* The router hands the mounted component another :type.  A route with a
\* :type segment always yields a value; type is undefined only under a
\* route without the segment, which has no other value to change to.
NavigateCategory(t) ==
    /\ page = "category" /\ phase = "mounted"
    /\ type # NoType /\ t # NoType
    /\ t # type
    /\ type' = t
    /\ title' = CleanupTitle
    /\ loadCategoryContent(t, filters)
    /\ lastOp' = "handler"
    /\ UNCHANGED <<page, phase, hasDataDefault, attractions, events, venues,
                   searchQuery, filters, isFiltersOpen, id, event, shownFor>>
    /\ UNCHANGED renderVars

\* Variant of handleFilterChange: the fetch carries the filters of the
\* render before the change.
handleFilterChange_StaleFilters(name, value) ==
    /\ page = "category" /\ phase = "mounted"
    /\ isFiltersOpen
    /\ filters' = [filters EXCEPT ![name] = value]
    /\ title' = CleanupTitle
    /\ loadCategoryContent(type, filters)
    /\ lastOp' = "handler"
    /\ UNCHANGED <<page, phase, hasDataDefault, type, attractions, events, venues,
                   searchQuery, isFiltersOpen, id, event, shownFor>>
    /\ UNCHANGED renderVars

\* setFilters stores a new object, so the effect runs again.
handleFilterChange(name, value) ==
    /\ page = "category" /\ phase = "mounted"
    /\ isFiltersOpen
    /\ filters' = [filters EXCEPT ![name] = value]
    /\ title' = CleanupTitle
    /\ loadCategoryContent(type, filters')
    /\ lastOp' = "handler"
    /\ UNCHANGED <<page, phase, hasDataDefault, type, attractions, events, venues,
                   searchQuery, isFiltersOpen, id, event, shownFor>>
    /\ UNCHANGED renderVars

clearFilters ==
    /\ page = "category" /\ phase = "mounted"
    /\ isFiltersOpen
    /\ filters' = EmptyFilters
    /\ title' = CleanupTitle
    /\ loadCategoryContent(type, EmptyFilters)
    /\ lastOp' = "handler"
    /\ UNCHANGED <<page, phase, hasDataDefault, type, attractions, events, venues,
                   searchQuery, isFiltersOpen, id, event, shownFor>>
    /\ UNCHANGED renderVars

setSearchQuery(q) ==
    /\ page = "category" /\ phase = "mounted"
    /\ searchQuery' = q
    /\ lastOp' = "handler"
    /\ UNCHANGED <<page, phase, hasDataDefault, title, type, attractions, events,
                   venues, filters, isFiltersOpen, isLoading, id, event, pending,
                   nextRid, shownFor>>
    /\ UNCHANGED renderVars

\* The 'Filter' button.
toggleFilters ==
    /\ page = "category" /\ phase = "mounted"
    /\ isFiltersOpen' = ~isFiltersOpen
    /\ lastOp' = "handler"
    /\ UNCHANGED <<page, phase, hasDataDefault, title, type, attractions, events,
                   venues, searchQuery, filters, isLoading, id, event, pending,
                   nextRid, shownFor>>
    /\ UNCHANGED renderVars

\* The X button and the 'Bruk filter' button of the open panel.
closeFilters(button) ==
    /\ page = "category" /\ phase = "mounted"
    /\ isFiltersOpen
    /\ isFiltersOpen' = FALSE
    /\ lastOp' = "handler"
    /\ UNCHANGED <<page, phase, hasDataDefault, title, type, attractions, events,
                   venues, searchQuery, filters, isLoading, id, event, pending,
                   nextRid, shownFor>>
    /\ UNCHANGED renderVars

\* Variant of handleSearch: the guard is !searchQuery, without trim().
handleSearch_NoTrim ==
    /\ page = "category" /\ phase = "mounted"
    /\ IF searchQuery = <<>>
       THEN /\ lastOp' = "handler"
            /\ UNCHANGED <<isLoading, pending, nextRid>>
       ELSE /\ nextRid <= MaxFetches
            /\ isLoading' = TRUE
            /\ pending' = pending \cup {SuggestRequest(nextRid, searchQuery)}
            /\ nextRid' = nextRid + 1
            /\ lastOp' = "handler"
    /\ UNCHANGED <<page, phase, hasDataDefault, title, type, attractions, events,
                   venues, searchQuery, filters, isFiltersOpen, id, event, shownFor>>
    /\ UNCHANGED renderVars

\* handleSearch up to its await.
handleSearch ==
    /\ page = "category" /\ phase = "mounted"
    /\ IF trim(searchQuery) = <<>>
       THEN /\ lastOp' = "handler"
            /\ UNCHANGED <<isLoading, pending, nextRid>>
       ELSE /\ nextRid <= MaxFetches
            /\ isLoading' = TRUE
            /\ pending' = pending \cup {SuggestRequest(nextRid, searchQuery)}
            /\ nextRid' = nextRid + 1
            /\ lastOp' = "handler"
    /\ UNCHANGED <<page, phase, hasDataDefault, title, type, attractions, events,
                   venues, searchQuery, filters, isFiltersOpen, id, event, shownFor>>
    /\ UNCHANGED renderVars

\* Variant of ResolveCategoryContent: a response whose request no longer
\* matches the current type and filters is dropped.
ResolveCategoryContent_IgnoreStale(r, content) ==
    /\ r \in pending /\ r.kind = "fetchCategoryContent"
    /\ pending' = pending \ {r}
    /\ IF phase = "mounted" /\ r.type = type /\ r.filters = filters
       THEN /\ attractions' = content.attractions
            /\ events' = content.events
            /\ venues' = content.venues
            /\ shownFor' = r
            /\ isLoading' = FALSE
            /\ title' = CategoryTitle(r.categoryName)
       ELSE UNCHANGED <<attractions, events, venues, shownFor, isLoading, title>>
    /\ lastOp' = "resolve"
    /\ UNCHANGED <<page, phase, hasDataDefault, type, searchQuery, filters,
                   isFiltersOpen, id, event, nextRid>>
    /\ UNCHANGED renderVars

\* Variant of ResolveCategoryContent: the title is built from the type of
\* the current render instead of the one the effect closed over.
ResolveCategoryContent_CurrentName(r, content) ==
    /\ r \in pending /\ r.kind = "fetchCategoryContent"
    /\ pending' = pending \ {r}
    /\ title' = CategoryTitle(categoryName(type))
    /\ IF phase = "mounted"
       THEN /\ attractions' = content.attractions
            /\ events' = content.events
            /\ venues' = content.venues
            /\ shownFor' = r
            /\ isLoading' = FALSE
       ELSE UNCHANGED <<attractions, events, venues, shownFor, isLoading>>
    /\ lastOp' = "resolve"
    /\ UNCHANGED <<page, phase, hasDataDefault, type, searchQuery, filters,
                   isFiltersOpen, id, event, nextRid>>
    /\ UNCHANGED renderVars

\* Variant of ResolveCategoryContent: the loading flag stays up while other
\* fetches are in flight.
ResolveCategoryContent_CountedFlag(r, content) ==
    /\ r \in pending /\ r.kind = "fetchCategoryContent"
    /\ pending' = pending \ {r}
    /\ title' = CategoryTitle(r.categoryName)
    /\ IF phase = "mounted"
       THEN /\ attractions' = content.attractions
            /\ events' = content.events
            /\ venues' = content.venues
            /\ shownFor' = r
            /\ isLoading' = (pending' # {})
       ELSE UNCHANGED <<attractions, events, venues, shownFor, isLoading>>
    /\ lastOp' = "resolve"
    /\ UNCHANGED <<page, phase, hasDataDefault, type, searchQuery, filters,
                   isFiltersOpen, id, event, nextRid>>
    /\ UNCHANGED renderVars

\* The await of loadCategoryContent returns content: the rest of the try
\* block, then finally.  State setters of an unmounted component do nothing.
ResolveCategoryContent(r, content) ==
    /\ r \in pending /\ r.kind = "fetchCategoryContent"
    /\ pending' = pending \ {r}
    /\ title' = CategoryTitle(r.categoryName)
    /\ IF phase = "mounted"
       THEN /\ attractions' = content.attractions
            /\ events' = content.events
            /\ venues' = content.venues
            /\ shownFor' = r
            /\ isLoading' = FALSE
       ELSE UNCHANGED <<attractions, events, venues, shownFor, isLoading>>
    /\ lastOp' = "resolve"
    /\ UNCHANGED <<page, phase, hasDataDefault, type, searchQuery, filters,
                   isFiltersOpen, id, event, nextRid>>
    /\ UNCHANGED renderVars

\* Variant of RejectCategoryContent: no finally block.
RejectCategoryContent_NoFinally(r) ==
    /\ r \in pending /\ r.kind = "fetchCategoryContent"
    /\ pending' = pending \ {r}
    /\ lastOp' = "reject"
    /\ UNCHANGED <<page, phase, hasDataDefault, title, type, attractions, events,
                   venues, searchQuery, filters, isFiltersOpen, isLoading, id, event,
                   nextRid, shownFor>>
    /\ UNCHANGED renderVars

\* The await of loadCategoryContent throws: catch (console.error), finally.
RejectCategoryContent(r) ==
    /\ r \in pending /\ r.kind = "fetchCategoryContent"
    /\ pending' = pending \ {r}
    /\ isLoading' = IF phase = "mounted" THEN FALSE ELSE isLoading
    /\ lastOp' = "reject"
    /\ UNCHANGED <<page, phase, hasDataDefault, title, type, attractions, events,
                   venues, searchQuery, filters, isFiltersOpen, id, event, nextRid,
                   shownFor>>
    /\ UNCHANGED renderVars

\* The await of handleSearch returns results.
ResolveSuggest(r, results) ==
    /\ r \in pending /\ r.kind = "fetchSuggest"
    /\ pending' = pending \ {r}
    /\ IF phase = "mounted"
       THEN /\ attractions' = results.attractions
            /\ events' = results.events
            /\ venues' = results.venues
            /\ shownFor' = r
            /\ isLoading' = FALSE
       ELSE UNCHANGED <<attractions, events, venues, shownFor, isLoading>>
    /\ lastOp' = "resolve"
    /\ UNCHANGED <<page, phase, hasDataDefault, title, type, searchQuery, filters,
                   isFiltersOpen, id, event, nextRid>>
    /\ UNCHANGED renderVars

\* The await of handleSearch throws.
RejectSuggest(r) ==
    /\ r \in pending /\ r.kind = "fetchSuggest"
    /\ pending' = pending \ {r}
    /\ isLoading' = IF phase = "mounted" THEN FALSE ELSE isLoading
    /\ lastOp' = "reject"
    /\ UNCHANGED <<page, phase, hasDataDefault, title, type, attractions, events,
                   venues, searchQuery, filters, isFiltersOpen, id, event, nextRid,
                   shownFor>>
    /\ UNCHANGED renderVars

UnmountCategory ==
    /\ page = "category" /\ phase = "mounted"
    /\ phase' = "unmounted"
    /\ title' = CleanupTitle
    /\ lastOp' = "handler"
    /\ UNCHANGED <<page, hasDataDefault, type, attractions, events, venues,
                   searchQuery, filters, isFiltersOpen, isLoading, id, event,
                   pending, nextRid, shownFor>>
    /\ UNCHANGED renderVars

(***************************************************************************)
(* EventDetails.                                                           *)
(***************************************************************************)
\* loadEvent up to its await, for the id of the render that ran the effect.
loadEvent(i) ==
    IF i = NoId
    THEN UNCHANGED <<isLoading, pending, nextRid>>
    ELSE /\ nextRid <= MaxFetches
         /\ isLoading' = TRUE
         /\ pending' = pending \cup {EventRequest(nextRid, i)}
         /\ nextRid' = nextRid + 1

MountEventDetails ==
    /\ page = "event" /\ phase = "constructed"
    /\ phase' = "mounted"
    /\ loadEvent(id)
    /\ lastOp' = "handler"
    /\ UNCHANGED <<page, hasDataDefault, title, type, attractions, events, venues,
                   searchQuery, filters, isFiltersOpen, id, event, shownFor>>
    /\ UNCHANGED renderVars

\* The router hands the mounted component another :id.
NavigateEventDetails(i) ==
    /\ page = "event" /\ phase = "mounted"
    /\ id # NoId /\ i # NoId
    /\ i # id
    /\ id' = i
    /\ title' = CleanupTitle
    /\ loadEvent(i)
    /\ lastOp' = "handler"
    /\ UNCHANGED <<page, phase, hasDataDefault, type, attractions, events, venues,
                   searchQuery, filters, isFiltersOpen, event, shownFor>>
    /\ UNCHANGED renderVars

\* The await of loadEvent returns eventData.
ResolveEvent(r, eventData) ==
    /\ r \in pending /\ r.kind = "fetchEventById"
    /\ pending' = pending \ {r}
    /\ title' = EventTitle(eventData)
    /\ IF phase = "mounted"
       THEN /\ event' = eventData
            /\ shownFor' = r
            /\ isLoading' = FALSE
       ELSE UNCHANGED <<event, shownFor, isLoading>>
    /\ lastOp' = "resolve"
    /\ UNCHANGED <<page, phase, hasDataDefault, type, attractions, events, venues,
                   searchQuery, filters, isFiltersOpen, id, nextRid>>
    /\ UNCHANGED renderVars

\* The await of loadEvent throws.
RejectEvent(r) ==
    /\ r \in pending /\ r.kind = "fetchEventById"
    /\ pending' = pending \ {r}
    /\ isLoading' = IF phase = "mounted" THEN FALSE ELSE isLoading
    /\ lastOp' = "reject"
    /\ UNCHANGED <<page, phase, hasDataDefault, title, type, attractions, events,
                   venues, searchQuery, filters, isFiltersOpen, id, event, nextRid,
                   shownFor>>
    /\ UNCHANGED renderVars

UnmountEventDetails ==
    /\ page = "event" /\ phase = "mounted"
    /\ phase' = "unmounted"
    /\ title' = CleanupTitle
    /\ lastOp' = "handler"
    /\ UNCHANGED <<page, hasDataDefault, type, attractions, events, venues,
                   searchQuery, filters, isFiltersOpen, isLoading, id, event,
                   pending, nextRid, shownFor>>
    /\ UNCHANGED renderVars

(***************************************************************************)
(* The pages: the state after construction (the useState initial values,   *)
(* the route parameter of the first render) and the steps.  The document   *)
(* starts with the default title, with or without data-default.            *)
(***************************************************************************)
Init ==
    /\ page \in {"category", "event"}
    /\ phase = "constructed"
    /\ hasDataDefault \in BOOLEAN
    /\ title = DefaultTitle
    /\ type \in (IF page = "category" THEN RouteTypes ELSE {NoType})
    /\ attractions = <<>>
    /\ events = <<>>
    /\ venues = <<>>
    /\ searchQuery = <<>>
    /\ filters = EmptyFilters
    /\ isFiltersOpen = FALSE
    /\ isLoading = TRUE
    /\ id \in (IF page = "event" THEN RouteIds ELSE {NoId})
    /\ event = None
    /\ pending = {}
    /\ nextRid = 1
    /\ shownFor = NoRequest
    /\ lastOp = "handler"
    /\ NoRender

Next ==
    \/ MountCategory
    \/ \E t \in RouteTypes : NavigateCategory(t)
    \/ \E name \in FilterNames : \E value \in FilterInputs[name] :
          handleFilterChange(name, value)
    \/ clearFilters
    \/ \E q \in SearchInputs : setSearchQuery(q)
    \/ toggleFilters
    \/ \E button \in {"X", "Bruk filter"} : closeFilters(button)
    \/ handleSearch
    \/ \E r \in pending : \E content \in Contents : ResolveCategoryContent(r, content)
    \/ \E r \in pending : RejectCategoryContent(r)
    \/ \E r \in pending : \E results \in Contents : ResolveSuggest(r, results)
    \/ \E r \in pending : RejectSuggest(r)
    \/ UnmountCategory
    \/ MountEventDetails
    \/ \E i \in RouteIds : NavigateEventDetails(i)
    \/ \E r \in pending : \E eventData \in EventResponses(r.id) : ResolveEvent(r, eventData)
    \/ \E r \in pending : RejectEvent(r)
    \/ UnmountEventDetails

Spec == Init /\ [][Next]_vars

(***************************************************************************)
(* The renderers applied to fixture entities.  A render computes its       *)
(* consts (locals) and then evaluates its JSX (output).                    *)
(***************************************************************************)
Props ==
    {[kind |-> "event", entity |-> e] : e \in EventFixtures \cup ClassifiedEvents}
    \cup {[kind |-> "attraction", entity |-> a] : a \in AttractionFixtures}
    \cup {[kind |-> "venue", entity |-> Some(v)] : v \in VenueFixtures}
    \cup {[kind |-> "venue", entity |-> None]}
    \cup {[kind |-> "results", entity |-> s] : s \in ResultStates}

NoPage ==
    /\ page = "none" /\ phase = "constructed" /\ hasDataDefault = FALSE
    /\ title = DefaultTitle /\ type = NoType
    /\ attractions = <<>> /\ events = <<>> /\ venues = <<>>
    /\ searchQuery = <<>> /\ filters = EmptyFilters /\ isFiltersOpen = FALSE
    /\ isLoading = TRUE /\ id = NoId /\ event = None /\ pending = {}
    /\ nextRid = 1 /\ shownFor = NoRequest /\ lastOp = "handler"

RenderInit ==
    /\ NoPage
    /\ props \in Props
    /\ rendered = "none"
    /\ locals = None
    /\ output = None

RenderEventCard ==
    /\ props.kind = "event"
    /\ rendered' = "EventCard"
    /\ locals' = Some([image |-> EventCardImage(props.entity),
                       location |-> EventCardLocation(props.entity),
                       formattedDate |-> EventCardDate(props.entity)])
    /\ output' = Some(EventCard(props.entity))
    /\ UNCHANGED <<props, pageVars>>

RenderAttraction ==
    /\ props.kind = "attraction"
    /\ rendered' = "renderAttraction"
    /\ locals' = Some([image |-> CategoryImage(props.entity.images),
                       genre |-> AttractionGenre(props.entity)])
    /\ output' = renderAttraction(props.entity)
    /\ UNCHANGED <<props, pageVars>>

RenderVenue ==
    /\ props.kind = "venue"
    /\ rendered' = "renderVenue"
    /\ locals' = None
    /\ output' = renderVenue(props.entity)
    /\ UNCHANGED <<props, pageVars>>

\* EventDetails once the event has loaded: isLoading false, event set.
RenderEventDetails ==
    /\ props.kind = "event"
    /\ rendered' = "EventDetails"
    /\ locals' = Some(EventDetailsLocals(props.entity))
    /\ output' = Some(EventDetails(FALSE, Some(props.entity)))
    /\ UNCHANGED <<props, pageVars>>

\* The result view of Category for the state in props.
RenderCategoryResults ==
    /\ props.kind = "results"
    /\ rendered' = "CategoryResults"
    /\ locals' = None
    /\ output' = Some(CategoryResults(props.entity.isLoading, props.entity.events,
                                      props.entity.attractions, props.entity.venues))
    /\ UNCHANGED <<props, pageVars>>

RenderNext ==
    \/ RenderCategoryResults
    \/ RenderEventCard
    \/ RenderAttraction
    \/ RenderVenue
    \/ RenderEventDetails

RenderSpec == RenderInit /\ [][RenderNext]_vars

(***************************************************************************)
(* Properties of the pages (Spec).                                         *)
(***************************************************************************)
Mounted == phase = "mounted"
Issued  == pending' \ pending
Settled == pending \ pending'

\* C1: fetches started by successive changes of type, filters or id are
\* neither cancelled nor deduplicated, and a response is applied whatever
\* the current parameters are: a call leaves the set of calls in flight only
\* by settling, every change of a (defined) parameter adds one more call in
\* flight, and the step in which a call resolves makes its response the
\* displayed one (collections of Category, event of EventDetails) even when
\* its request is older than the current type, filters or id.
C1_NoCancelNoDedup ==
    [][/\ \A r \in pending :
            r \in pending' \/ (lastOp' \in {"resolve", "reject"} /\ Settled = {r})
       /\ (Mounted /\ (type' # type \/ filters' # filters \/ id' # id)
              /\ type' # NoType /\ page = "category")
            => Cardinality(pending') = Cardinality(pending) + 1
       /\ (Mounted /\ id' # id /\ page = "event")
            => Cardinality(pending') = Cardinality(pending) + 1
       /\ \A r \in Settled :
            (Mounted /\ lastOp' = "resolve")
            => /\ shownFor' = r
               /\ r.kind # "fetchEventById"
                    => \E c \in Contents : /\ attractions' = c.attractions
                                           /\ events' = c.events
                                           /\ venues' = c.venues
               /\ r.kind = "fetchEventById" => event' \in EventResponses(r.id)
      ]_vars

\* C1 witness: two category loads overlapped, the later one settled first
\* and the earlier one resolved last: nothing is pending and the displayed
\* collections answer a request for an older type or filter value.
C1_StaleCollectionsShown ==
    /\ page = "category" /\ Mounted
    /\ pending = {} /\ ~isLoading
    /\ lastOp = "resolve"
    /\ shownFor.kind = "fetchCategoryContent"
    /\ shownFor.rid < nextRid - 1
    /\ type # NoType
    /\ (shownFor.type # type \/ shownFor.filters # filters)
    /\ events # <<>>

\* The same state in EventDetails: nothing is pending and the event shown
\* answers a request for an older id than the current one.
StaleEventShown ==
    /\ page = "event" /\ Mounted
    /\ pending = {} /\ ~isLoading
    /\ lastOp = "resolve"
    /\ shownFor.kind = "fetchEventById"
    /\ shownFor.rid < nextRid - 1
    /\ shownFor.id # id
    /\ IsSome(event) /\ Get(event).id # id

\* C2 (as claimed): after a failed fetch of the Category page the three
\* collections are empty.
C2_FailureShowsEmpty ==
    (page = "category" /\ Mounted /\ lastOp = "reject")
    => (attractions = <<>> /\ events = <<>> /\ venues = <<>>)

\* C3: the step in which a started fetch settles (category load, search,
\* event load; resolved or rejected) ends with isLoading = FALSE, removes
\* exactly that call and issues no other fetch (no retry).
C3_SettleClearsLoading ==
    [][\A r \in pending :
          (Mounted /\ r \notin pending')
          => /\ isLoading' = FALSE
             /\ pending' = pending \ {r}
             /\ nextRid' = nextRid
             /\ lastOp' \in {"resolve", "reject"}
      ]_vars

\* C3 witness: a fetch has just been rejected and the loading flag is down.
C3_RejectedAndNotLoading ==
    /\ Mounted /\ lastOp = "reject" /\ ~isLoading /\ pending = {}

\* C4: submitting the search form while searchQuery is empty or whitespace
\* only issues no fetch and leaves isLoading, the collections, filters and
\* searchQuery unchanged; a fetchSuggest is issued only for a query with a
\* non-whitespace character, one per submit, carrying the untrimmed query and
\* neither type nor filters.
C4_SearchSubmit ==
    [][/\ (handleSearch /\ trim(searchQuery) = <<>>)
            => UNCHANGED <<isLoading, attractions, events, venues, filters,
                           searchQuery, pending, nextRid>>
       /\ (handleSearch /\ trim(searchQuery) # <<>>)
            => /\ Issued = {SuggestRequest(nextRid, searchQuery)}
               /\ Settled = {}
               /\ isLoading'
       /\ \A r \in Issued :
            r.kind = "fetchSuggest"
            => /\ trim(searchQuery) # <<>>
               /\ r.query = searchQuery
               /\ r.type = NoType /\ r.filters = EmptyFilters
               /\ Issued = {r}
      ]_vars

\* C4 witness: a search with leading whitespace is in flight, untrimmed.
C4_UntrimmedSearchInFlight ==
    /\ page = "category" /\ Mounted /\ isLoading
    /\ searchQuery = <<" ", "a">>
    /\ \E r \in pending : r.kind = "fetchSuggest" /\ r.query = <<" ", "a">>

\* C5: on mount and on every change of type or of a filter field, provided
\* type is defined, exactly one fetchCategoryContent is issued, carrying the
\* type and filters of the new render, and isLoading is true afterwards;
\* steps that open or close the filter panel or edit the search text issue
\* no fetch.
C5_EffectIssuesFetch ==
    [][/\ (/\ page = "category" /\ phase' = "mounted"
           /\ (phase = "constructed" \/ type' # type \/ filters' # filters)
           /\ type' # NoType)
            => /\ Issued = {CategoryRequest(nextRid, type', filters')}
               /\ Settled = {}
               /\ isLoading'
       /\ (isFiltersOpen' # isFiltersOpen \/ searchQuery' # searchQuery)
            => /\ pending' = pending
               /\ nextRid' = nextRid
               /\ isLoading' = isLoading
      ]_vars

\* C5 witness: a filter was edited and the fetch in flight carries the
\* current type and the edited filters.
C5_FilteredFetchInFlight ==
    /\ page = "category" /\ Mounted /\ isLoading
    /\ filters # EmptyFilters
    /\ \E r \in pending : r = CategoryRequest(nextRid - 1, type, filters)

\* C9 (as claimed): the document title changes only in a step in which a
\* category load or an event load resolves.
C9_TitleOnlyOnSuccessfulLoad ==
    [][title' # title
        => /\ lastOp' = "resolve"
           /\ \E r \in Settled : r.kind \in {"fetchCategoryContent", "fetchEventById"}
      ]_vars

\* C9 (amended): a category load that resolves sets the title to the
\* translation of the type its request was issued for ('Kategori' for an
\* unknown type) followed by ' | Billettlyst'; an event load that resolves
\* sets it to '<event name> | Billettlyst', or 'Arrangement | Billettlyst'
\* for no event; a failed load and a search leave it unchanged; the only
\* other change is the cleanup of the effect, which runs when the effect is
\* run again or the page unmounts and resets the title to the default one
\* when the title element carries data-default.
C9_TitleMutations ==
    [][/\ \A r \in Settled :
            /\ (lastOp' = "resolve" /\ r.kind = "fetchCategoryContent")
                 => title' = (IF r.type \in DOMAIN categoryTranslations
                              THEN categoryTranslations[r.type]
                              ELSE "Kategori") \o " | Billettlyst"
            /\ (lastOp' = "resolve" /\ r.kind = "fetchEventById")
                 => /\ title' \in {EventTitle(e) : e \in EventResponses(r.id)}
                    /\ Mounted => title' = EventTitle(event')
            /\ (lastOp' = "reject" \/ r.kind = "fetchSuggest")
                 => title' = title
       /\ (Settled = {} /\ title' # title)
            => /\ hasDataDefault
               /\ title' = DefaultTitle
               /\ \/ phase' = "unmounted" /\ phase = "mounted"
                  \/ /\ Mounted
                     /\ type' # type \/ filters' # filters \/ id' # id
                        \/ (isFiltersOpen /\ \E r \in Issued : r.filters = filters)
       /\ \A r \in Issued : r.kind = "fetchSuggest" => title' = title
      ]_vars

\* C9 witness: a category load had set the title and the cleanup of the
\* effect has put the default title back.
C9_TitleResetByCleanup ==
    /\ page = "category" /\ hasDataDefault
    /\ shownFor.kind = "fetchCategoryContent"
    /\ title = DefaultTitle
    /\ lastOp = "handler"

\* C10 (as claimed): in EventDetails, whenever isLoading is false and the
\* route has an id, the page shows the not-found view or an event that is a
\* response for that id.
C10_ShownEventIsForCurrentId ==
    (page = "event" /\ Mounted /\ ~isLoading /\ id # NoId)
    => \/ EventDetailsBranch(isLoading, event) = "notFound"
       \/ /\ EventDetailsBranch(isLoading, event) = "details"
          /\ event \in EventResponses(id)

(***************************************************************************)
(* Properties of the renderers (RenderSpec).                               *)
(***************************************************************************)
Entity == props.entity
NoImages(images) == ~IsSome(images) \/ Get(images) = <<>>
LacksPlace(venue) == ~IsSome(venue.city) \/ ~IsSome(venue.country)

\* C6 (as claimed): no render path reads a field of an absent venue city or
\* country: for an event whose first venue lacks one of them EventCard shows
\* 'Ukjent sted' and EventDetails renders the event; for a venue lacking one
\* of them renderVenue produces no card.
C6_AbsentPlaceGuarded ==
    /\ (rendered \in {"EventCard", "EventDetails"}
        /\ IsSome(FirstVenue(Entity)) /\ LacksPlace(Get(FirstVenue(Entity))))
         => /\ rendered = "EventCard" => Get(output).location = UkjentSted
            /\ rendered = "EventDetails" => Get(output).view = "details"
    /\ (rendered = "renderVenue" /\ IsSome(Entity) /\ LacksPlace(Get(Entity)))
         => output = None

\* C7 (as claimed): for an entity whose images are absent or empty every
\* render path shows the placeholder image: EventCard, the attraction card,
\* the venue card (when a card is produced), and the header of EventDetails
\* (when the render does not fail), which is still rendered with the event
\* name and the date.
C7_PlaceholderOnEveryPath ==
    /\ (rendered = "EventCard" /\ NoImages(Entity.images))
         => Get(output).src = PlaceholderUrl
    /\ (rendered = "renderAttraction" /\ NoImages(Entity.images))
         => Get(output).src = PlaceholderUrl
    /\ (rendered = "renderVenue" /\ IsSome(output) /\ NoImages(Get(Entity).images))
         => Get(output).src = PlaceholderUrl
    /\ (rendered = "EventDetails" /\ NoImages(Entity.images)
        /\ Get(output).view = "details")
         => /\ IsSome(Get(output).header)
            /\ Get(Get(output).header).src = PlaceholderUrl
            /\ Get(Get(output).header).name = Entity.name

\* C8: for an event without dates.start.localDate the date of EventCard
\* and of EventDetails is 'Dato ikke tilgjengelig'; the 'Dato og tid' field
\* of EventDetails is formatDateTime(localDate, localTime) when both are
\* present and equals the date field otherwise, so it is also 'Dato ikke
\* tilgjengelig' for a time without a date.
C8_DateFallback ==
    LET localDate == StartField(Entity, "localDate")
        localTime == StartField(Entity, "localTime")
    IN  /\ (rendered = "EventCard" /\ ~IsSome(localDate))
             => Get(output).formattedDate = DatoIkkeTilgjengelig
        /\ rendered = "EventDetails"
             => /\ ~IsSome(localDate)
                     => /\ Get(locals).formattedDate = DatoIkkeTilgjengelig
                        /\ Get(locals).formattedDateTime = DatoIkkeTilgjengelig
                /\ (IsSome(localDate) /\ IsSome(localTime))
                     => Get(locals).formattedDateTime
                           = formatDateTime(Get(localDate), Get(localTime))
                /\ ~(IsSome(localDate) /\ IsSome(localTime))
                     => Get(locals).formattedDateTime = Get(locals).formattedDate
                /\ Get(output).view = "details"
                     => /\ Get(output).datoOgTid = Get(locals).formattedDateTime
                        /\ IsSome(Get(output).header)
                             => Get(Get(output).header).date
                                  = Get(locals).formattedDate

\* C8 witness: EventDetails rendered an event with a time and no date.
C8_TimeWithoutDate ==
    /\ rendered = "EventDetails"
    /\ ~IsSome(StartField(Entity, "localDate"))
    /\ IsSome(StartField(Entity, "localTime"))
    /\ Get(output).view = "details"
    /\ Get(output).datoOgTid = DatoIkkeTilgjengelig

\* C11: the genre list of EventDetails holds exactly the distinct
\* non-empty names among segment, genre and subGenre of all classifications,
\* each once, in the order of their first occurrence (classifications in
\* order, within each segment, genre, subGenre); the 'Sjangere' section is
\* rendered with that list, and omitted exactly when there is no such name.
C11_GenresDistinctInOrder ==
    rendered = "EventDetails"
    => LET cs == IF IsSome(Entity.classifications)
                 THEN Get(Entity.classifications) ELSE <<>>
           \* position of a name: 3 * (classification - 1) + field
           Position(n) ==
               CHOOSE p \in 1..(3 * Len(cs)) :
                  /\ <<cs[((p - 1) \div 3) + 1].segment,
                       cs[((p - 1) \div 3) + 1].genre,
                       cs[((p - 1) \div 3) + 1].subGenre>>[((p - 1) % 3) + 1] = n
                  /\ \A q \in 1..(p - 1) :
                       <<cs[((q - 1) \div 3) + 1].segment,
                         cs[((q - 1) \div 3) + 1].genre,
                         cs[((q - 1) \div 3) + 1].subGenre>>[((q - 1) % 3) + 1] # n
           names == UNION {{cs[i].segment, cs[i].genre, cs[i].subGenre} :
                              i \in 1..Len(cs)} \ {""}
           g == Get(locals).genres
       IN  /\ {g[i] : i \in 1..Len(g)} = names
           /\ Len(g) = Cardinality(names)
           /\ \A i, j \in 1..Len(g) : i < j => Position(g[i]) < Position(g[j])
           /\ Get(output).view = "details"
                => /\ names # {} => Get(output).sjangere = Some(g)
                   /\ names = {} => Get(output).sjangere = None

\* C11 witness: a name occurs in two classifications and once in the list,
\* after a name that occurs earlier.
C11_RepeatedNameOnce ==
    /\ rendered = "EventDetails"
    /\ Entity.classifications
         = Some(<<[segment |-> "Musikk", genre |-> "Rock", subGenre |-> ""],
                  [segment |-> "Rock", genre |-> "", subGenre |-> "Musikk"]>>)
    /\ Get(locals).genres = <<"Musikk", "Rock">>
    /\ Get(output).sjangere = Some(<<"Musikk", "Rock">>)

\* C12: the loading flag of Category is one boolean, not a count of the
\* fetches in flight.  In the mounted page a fetch that settles while others
\* are still in flight puts isLoading to FALSE all the same; isLoading rises
\* only in a step that issues a fetch; and a fetch that resolves while
\* isLoading is already FALSE replaces the displayed collections by its
\* response and leaves isLoading FALSE.
C12_LoadingFlagIsNotACount ==
    [][(page = "category" /\ Mounted)
       => /\ (Settled # {} /\ pending' # {}) => isLoading' = FALSE
          /\ (~isLoading /\ isLoading') => (Issued # {} /\ Settled = {})
          /\ \A r \in Settled :
               (~isLoading /\ lastOp' = "resolve")
               => /\ ~isLoading'
                  /\ shownFor' = r
                  /\ \E c \in Contents : /\ attractions' = c.attractions
                                         /\ events' = c.events
                                         /\ venues' = c.venues
      ]_vars

\* C12 witness: of two overlapping fetches (a search among them) one has
\* settled and the other is still in flight while isLoading is FALSE.
C12_NotLoadingWhileInFlight ==
    /\ page = "category" /\ Mounted
    /\ ~isLoading
    /\ lastOp \in {"resolve", "reject"}
    /\ \E r \in pending : r.kind = "fetchSuggest" /\ r.rid < nextRid - 1

\* C13: without the route parameter the load is skipped.  With type
\* undefined no step of Category issues a category load, the only fetch
\* issued is a search with a non-blank query, a step that neither issues nor
\* settles a fetch (the effect running at mount or after a filter change
\* among them) leaves isLoading, the collections and the calls in flight as
\* they were, and isLoading falls only in the step in which a search
\* settles.  With id undefined no step of EventDetails issues a fetch, and
\* isLoading is and stays TRUE with no event.
C13_UndefinedParamSkipsLoad ==
    [][/\ (page = "category" /\ type = NoType)
            => /\ \A r \in Issued : r.kind = "fetchSuggest" /\ trim(r.query) # <<>>
               /\ (Issued = {} /\ Settled = {})
                    => UNCHANGED <<isLoading, attractions, events, venues,
                                   pending, shownFor>>
               /\ (isLoading /\ ~isLoading')
                    => \E r \in Settled : r.kind = "fetchSuggest"
       /\ (page = "event" /\ id = NoId)
            => /\ isLoading /\ isLoading'
               /\ pending = {} /\ pending' = {}
               /\ event = None /\ event' = None
      ]_vars

\* C13 witness: Category is mounted without type, a filter has been changed
\* (the effect has run twice), nothing was fetched and the skeleton is still
\* shown.
C13_NoTypeStillLoading ==
    /\ page = "category" /\ Mounted
    /\ type = NoType
    /\ filters # EmptyFilters
    /\ isLoading
    /\ pending = {} /\ nextRid = 1
    /\ shownFor = NoRequest

\* C14 (as claimed): in the result view of Category each of the three
\* sections shows its 'Ingen ... funnet' message exactly when it renders no
\* card; the venue section shows 'Ingen spillesteder funnet i denne
\* kategorien.' whenever no venue card is produced, be the collection empty
\* or every venue in it skipped for lacking city or country.
C14_MessageIffNoCard ==
    (rendered = "CategoryResults" /\ Get(output).view = "results")
    => /\ Get(output).arrangementer.message = Some(IngenArrangementer)
            <=> Get(output).arrangementer.cards = <<>>
       /\ Get(output).attraksjoner.message = Some(IngenAttraksjoner)
            <=> Get(output).attraksjoner.cards = <<>>
       /\ Get(output).spillesteder.message = Some(IngenSpillesteder)
            <=> Get(output).spillesteder.cards = <<>>


====
